---- MODULE Spec2Model ----
(***************************************************************************)
(* Model of the cache simulator csim.c: a set-associative cache with       *)
(* 2^s sets of E lines and 2^b-byte blocks, LRU replacement by per-line    *)
(* "lastUsed" counters, write-back / write-allocate dirty accounting.      *)
(*                                                                         *)
(* A trace record is the pair (operation, addr) that main() obtains from   *)
(* one line of the trace file: operation is buf[0] and addr is the long    *)
(* returned by strtol(.., 16).  addr is therefore a SIGNED 64-bit value.   *)
(*                                                                         *)
(* The unsigned long counters of csim_stats_t are held as their two's      *)
(* complement reading: a value below 2^63 is itself, and a counter that    *)
(* wrapped below zero shows as a negative number.  Addition and            *)
(* subtraction are the same in both readings.                              *)
(***************************************************************************)
EXTENDS Integers, Sequences, FiniteSets, TLC

\* ---- bounds of the model --------------------------------------------------
MaxS == 1        \* s ranges over 0..MaxS
MaxB == 1        \* b ranges over 0..MaxB
MaxE == 2        \* E ranges over 1..MaxE
MaxAddr == 2     \* non-negative addresses range over 0..MaxAddr
MaxTrace == 4    \* number of trace records read
MaxAge == 3      \* lastUsed values given to findLeastRecentlyUsed directly

\* ---- program constants ----------------------------------------------------
AddrWidth == 64  \* width of long; parseArgument accepts s + b <= 64

VARIABLES
    s,       \* number of set index bits            (global s)
    E,       \* number of lines per set             (global E)
    b,       \* number of block offset bits         (global b)
    cache,   \* cache[set][line] = cacheLine        (global cache)
    stats,   \* csim_stats_t                        (global stats)
    nRec,    \* number of trace records read so far (iterations of main's loop)
    nLS,     \* number of those records whose operation is 'L' or 'S'
    last,    \* observation of the last record processed
    ref,     \* reference LRU model: ref[set] maps a resident tag to its most
             \* recent access: pos, the position of that record in the
             \* trace, and nth, its rank among the accesses to the set
    pc,      \* where main is: "parse", "init", "loop", "exit", "crash"
    traceFile, \* "NULL" or "open"                  (global traceFile)
    run2     \* a second run of the simulator on the same trace with E + 1
             \* lines per set: its cache, its stats, its last outcome

vars == <<s, E, b, cache, stats, nRec, nLS, last, ref, pc, traceFile, run2>>

\* The long whose bits are all set: the record "-1", 0xffffffffffffffff.
AllOnes == 0 - 1
AddrSet == {AllOnes} \cup 0..MaxAddr
Ops == {"L", "S", "M"}

\* ---- arithmetic -----------------------------------------------------------

\* a >> k on a long, for k below the width: arithmetic shift = floor division.
\* For 31 <= k < 64 and |a| < 2^31 only the sign is left.
Shr(a, k) == IF k >= 31 THEN (IF a < 0 THEN 0 - 1 ELSE 0) ELSE a \div (2 ^ k)

\* The values a >> k can take.  k = 64 is a shift by the full width, which
\* is undefined: the hardware either masks the count to 6 bits (a >> 0) or
\* shifts everything out (sign fill).
ShrOutcomes(a, k) ==
    IF k < AddrWidth THEN {Shr(a, k)}
    ELSE {a, IF a < 0 THEN 0 - 1 ELSE 0}

\* The values of (unsigned long)pow(2, b).  2^64 is out of range of unsigned
\* long, so the conversion is undefined: 0 (x86-64) or saturated ULONG_MAX,
\* which reads -1.
PowCast(k) == IF k < AddrWidth THEN {2 ^ k} ELSE {0, 0 - 1}

\* ---- the cache ------------------------------------------------------------

\* init(): every line invalid, clean, lastUsed 0.  tag is left uninitialised
\* by the code and is never read while valid = 0; it is shown as 0.
\* Variant: init() marks every line valid.
init_AllValid(ns, nE) ==
    [i \in 0..(2 ^ ns - 1) |->
        [j \in 0..(nE - 1) |->
            [valid |-> 1, tag |-> 0, dirty |-> 0, lastUsed |-> 0]]]

initLine == [valid |-> 0, tag |-> 0, dirty |-> 0, lastUsed |-> 0]
init(ns, nE) == [i \in 0..(2 ^ ns - 1) |-> [j \in 0..(nE - 1) |-> initLine]]

initStats == [hits |-> 0, misses |-> 0, evictions |-> 0,
              dirty_bytes |-> 0, dirty_evictions |-> 0]

\* E as the functions below see it: the number of lines init() gave each set
\* of the cache c they work on.
NumLines(c, set) == Cardinality(DOMAIN c[set])

\* Variant: the line used keeps its lastUsed instead of being reset to 0.
updateLastUsed_NoReset(c, set, offset) ==
    [c EXCEPT ![set] =
        [i \in 0..(NumLines(c, set) - 1) |->
            IF i = offset THEN c[set][i]
            ELSE [c[set][i] EXCEPT !.lastUsed = @ + 1]]]

\* Variant: the other lines of the set are not aged.
updateLastUsed_NoAge(c, set, offset) ==
    [c EXCEPT ![set] =
        [i \in 0..(NumLines(c, set) - 1) |->
            IF i = offset THEN [c[set][i] EXCEPT !.lastUsed = 0]
            ELSE c[set][i]]]

updateLastUsed(c, set, offset) ==
    [c EXCEPT ![set] =
        [i \in 0..(NumLines(c, set) - 1) |->
            IF i = offset THEN [c[set][i] EXCEPT !.lastUsed = 0]
            ELSE [c[set][i] EXCEPT !.lastUsed = @ + 1]]]

\* Variant: the comparison is >= instead of >, so the last line holding the
\* maximum wins.
RECURSIVE lruScan_Ge(_, _, _, _)
lruScan_Ge(c, set, i, maxIndex) ==
    IF i >= NumLines(c, set) THEN maxIndex
    ELSE lruScan_Ge(c, set, i + 1,
                    IF c[set][i].lastUsed >= c[set][maxIndex].lastUsed
                    THEN i ELSE maxIndex)

RECURSIVE lruScan(_, _, _, _)
lruScan(c, set, i, maxIndex) ==
    IF i >= NumLines(c, set) THEN maxIndex
    ELSE lruScan(c, set, i + 1,
                 IF c[set][i].lastUsed > c[set][maxIndex].lastUsed
                 THEN i ELSE maxIndex)

findLeastRecentlyUsed(c, set) == lruScan(c, set, 0, 0)

\* Variant: only line 0 is compared.
hitScan_FirstOnly(c, set, tag, i) ==
    IF i = 0 /\ c[set][0].valid = 1 /\ c[set][0].tag = tag THEN 0
    ELSE NumLines(c, set)

\* Index of the first line of the set that is valid and holds tag; E if none
\* (the loop of isMiss).
RECURSIVE hitScan(_, _, _, _)
hitScan(c, set, tag, i) ==
    IF i >= NumLines(c, set) THEN NumLines(c, set)
    ELSE IF c[set][i].valid = 1 /\ c[set][i].tag = tag THEN i
    ELSE hitScan(c, set, tag, i + 1)

\* Variant: a store hit adds a block to dirty_bytes even when the line is
\* already dirty.
isMiss_AlwaysCount(c, st, set, tag, operation, bs) ==
    LET i == hitScan(c, set, tag, 0) IN
    IF i = NumLines(c, set) THEN [cache |-> c, stats |-> st, ret |-> TRUE]
    ELSE LET c1 == updateLastUsed(c, set, i) IN
         IF operation = "S"
         THEN [cache |-> [c1 EXCEPT ![set][i].dirty = 1],
               stats |-> [st EXCEPT !.dirty_bytes = @ + bs],
               ret |-> FALSE]
         ELSE [cache |-> c1, stats |-> st, ret |-> FALSE]

\* Variant: a hit does not call updateLastUsed.
isMiss_NoTouch(c, st, set, tag, operation, bs) ==
    LET i == hitScan(c, set, tag, 0) IN
    IF i = NumLines(c, set) THEN [cache |-> c, stats |-> st, ret |-> TRUE]
    ELSE IF operation = "S" /\ c[set][i].dirty = 0
         THEN [cache |-> [c EXCEPT ![set][i].dirty = 1],
               stats |-> [st EXCEPT !.dirty_bytes = @ + bs],
               ret |-> FALSE]
         ELSE [cache |-> c, stats |-> st, ret |-> FALSE]

\* isMiss: bs is the value of (unsigned long)pow(2, b).
isMiss(c, st, set, tag, operation, bs) ==
    LET i == hitScan(c, set, tag, 0) IN
    IF i = NumLines(c, set) THEN [cache |-> c, stats |-> st, ret |-> TRUE]
    ELSE LET c1 == updateLastUsed(c, set, i) IN
         IF operation = "S" /\ c1[set][i].dirty = 0
         THEN [cache |-> [c1 EXCEPT ![set][i].dirty = 1],
               stats |-> [st EXCEPT !.dirty_bytes = @ + bs],
               ret |-> FALSE]
         ELSE [cache |-> c1, stats |-> st, ret |-> FALSE]

\* Variant: the search for an invalid line runs from the last line down.
freeScan_FromTop(c, set, i) ==
    LET free == {j \in DOMAIN c[set] : c[set][j].valid = 0} IN
    IF free = {} THEN NumLines(c, set)
    ELSE CHOOSE j \in free : \A k \in free : k <= j

\* Index of the first invalid line of the set; E if none (first loop of
\* updateCache).
RECURSIVE freeScan(_, _, _)
freeScan(c, set, i) ==
    IF i >= NumLines(c, set) THEN NumLines(c, set)
    ELSE IF c[set][i].valid = 0 THEN i
    ELSE freeScan(c, set, i + 1)

\* Variant: the value returned tells whether the set is full after the
\* install rather than before it.
updateCache_FullAfter(c, st, set, tag, operation, bs) ==
    LET i == freeScan(c, set, 0)
        isFull == (i = NumLines(c, set))
        \* install into the first invalid line
        c1 == IF isFull THEN c
              ELSE updateLastUsed(
                     [c EXCEPT ![set][i] =
                        [@ EXCEPT !.valid = 1, !.tag = tag, !.dirty = 0]],
                     set, i)
        \* evict the line with the largest lastUsed
        evicted == findLeastRecentlyUsed(c1, set)
        wasDirty == isFull /\ c1[set][evicted].dirty # 0
        c2 == IF isFull
              THEN updateLastUsed(
                     [c1 EXCEPT ![set][evicted] =
                        [@ EXCEPT !.valid = 1, !.tag = tag,
                                  !.dirty = IF @ # 0 THEN 0 ELSE @]],
                     set, evicted)
              ELSE c1
        st2 == IF wasDirty
               THEN [st EXCEPT !.dirty_evictions = @ + bs,
                               !.dirty_bytes = @ - bs]
               ELSE st
        index == IF isFull THEN evicted ELSE i
    IN  IF operation = "S"
        THEN [cache |-> [c2 EXCEPT ![set][index].dirty = 1],
              stats |-> [st2 EXCEPT !.dirty_bytes = @ + bs],
              ret |-> (freeScan(c2, set, 0) = NumLines(c, set)), index |-> index]
        ELSE [cache |-> c2, stats |-> st2,
              ret |-> (freeScan(c2, set, 0) = NumLines(c, set)), index |-> index]

\* Variant: an eviction is accounted as a write-back whether or not the
\* victim is dirty.
updateCache_AlwaysWriteBack(c, st, set, tag, operation, bs) ==
    LET i == freeScan(c, set, 0)
        isFull == (i = NumLines(c, set))
        \* install into the first invalid line
        c1 == IF isFull THEN c
              ELSE updateLastUsed(
                     [c EXCEPT ![set][i] =
                        [@ EXCEPT !.valid = 1, !.tag = tag, !.dirty = 0]],
                     set, i)
        \* evict the line with the largest lastUsed
        evicted == findLeastRecentlyUsed(c1, set)
        wasDirty == isFull
        c2 == IF isFull
              THEN updateLastUsed(
                     [c1 EXCEPT ![set][evicted] =
                        [@ EXCEPT !.valid = 1, !.tag = tag,
                                  !.dirty = IF @ # 0 THEN 0 ELSE @]],
                     set, evicted)
              ELSE c1
        st2 == IF wasDirty
               THEN [st EXCEPT !.dirty_evictions = @ + bs,
                               !.dirty_bytes = @ - bs]
               ELSE st
        index == IF isFull THEN evicted ELSE i
    IN  IF operation = "S"
        THEN [cache |-> [c2 EXCEPT ![set][index].dirty = 1],
              stats |-> [st2 EXCEPT !.dirty_bytes = @ + bs],
              ret |-> isFull, index |-> index]
        ELSE [cache |-> c2, stats |-> st2, ret |-> isFull, index |-> index]

\* Variant: a dirty eviction adds 1 to dirty_evictions instead of the block
\* size.
updateCache_CountLines(c, st, set, tag, operation, bs) ==
    LET i == freeScan(c, set, 0)
        isFull == (i = NumLines(c, set))
        \* install into the first invalid line
        c1 == IF isFull THEN c
              ELSE updateLastUsed(
                     [c EXCEPT ![set][i] =
                        [@ EXCEPT !.valid = 1, !.tag = tag, !.dirty = 0]],
                     set, i)
        \* evict the line with the largest lastUsed
        evicted == findLeastRecentlyUsed(c1, set)
        wasDirty == isFull /\ c1[set][evicted].dirty # 0
        c2 == IF isFull
              THEN updateLastUsed(
                     [c1 EXCEPT ![set][evicted] =
                        [@ EXCEPT !.valid = 1, !.tag = tag,
                                  !.dirty = IF @ # 0 THEN 0 ELSE @]],
                     set, evicted)
              ELSE c1
        st2 == IF wasDirty
               THEN [st EXCEPT !.dirty_evictions = @ + 1,
                               !.dirty_bytes = @ - bs]
               ELSE st
        index == IF isFull THEN evicted ELSE i
    IN  IF operation = "S"
        THEN [cache |-> [c2 EXCEPT ![set][index].dirty = 1],
              stats |-> [st2 EXCEPT !.dirty_bytes = @ + bs],
              ret |-> isFull, index |-> index]
        ELSE [cache |-> c2, stats |-> st2, ret |-> isFull, index |-> index]

\* Variant: a dirty eviction does not take the victim's block off dirty_bytes.
updateCache_NoDecrement(c, st, set, tag, operation, bs) ==
    LET i == freeScan(c, set, 0)
        isFull == (i = NumLines(c, set))
        \* install into the first invalid line
        c1 == IF isFull THEN c
              ELSE updateLastUsed(
                     [c EXCEPT ![set][i] =
                        [@ EXCEPT !.valid = 1, !.tag = tag, !.dirty = 0]],
                     set, i)
        \* evict the line with the largest lastUsed
        evicted == findLeastRecentlyUsed(c1, set)
        wasDirty == isFull /\ c1[set][evicted].dirty # 0
        c2 == IF isFull
              THEN updateLastUsed(
                     [c1 EXCEPT ![set][evicted] =
                        [@ EXCEPT !.valid = 1, !.tag = tag,
                                  !.dirty = IF @ # 0 THEN 0 ELSE @]],
                     set, evicted)
              ELSE c1
        st2 == IF wasDirty
               THEN [st EXCEPT !.dirty_evictions = @ + bs]
               ELSE st
        index == IF isFull THEN evicted ELSE i
    IN  IF operation = "S"
        THEN [cache |-> [c2 EXCEPT ![set][index].dirty = 1],
              stats |-> [st2 EXCEPT !.dirty_bytes = @ + bs],
              ret |-> isFull, index |-> index]
        ELSE [cache |-> c2, stats |-> st2, ret |-> isFull, index |-> index]

\* Variant: the installed line is marked dirty whatever the operation.
updateCache_AlwaysDirty(c, st, set, tag, operation, bs) ==
    LET i == freeScan(c, set, 0)
        isFull == (i = NumLines(c, set))
        \* install into the first invalid line
        c1 == IF isFull THEN c
              ELSE updateLastUsed(
                     [c EXCEPT ![set][i] =
                        [@ EXCEPT !.valid = 1, !.tag = tag, !.dirty = 0]],
                     set, i)
        \* evict the line with the largest lastUsed
        evicted == findLeastRecentlyUsed(c1, set)
        wasDirty == isFull /\ c1[set][evicted].dirty # 0
        c2 == IF isFull
              THEN updateLastUsed(
                     [c1 EXCEPT ![set][evicted] =
                        [@ EXCEPT !.valid = 1, !.tag = tag,
                                  !.dirty = IF @ # 0 THEN 0 ELSE @]],
                     set, evicted)
              ELSE c1
        st2 == IF wasDirty
               THEN [st EXCEPT !.dirty_evictions = @ + bs,
                               !.dirty_bytes = @ - bs]
               ELSE st
        index == IF isFull THEN evicted ELSE i
    IN  IF TRUE
        THEN [cache |-> [c2 EXCEPT ![set][index].dirty = 1],
              stats |-> [st2 EXCEPT !.dirty_bytes = @ + bs],
              ret |-> isFull, index |-> index]
        ELSE [cache |-> c2, stats |-> st2, ret |-> isFull, index |-> index]

updateCache(c, st, set, tag, operation, bs) ==
    LET i == freeScan(c, set, 0)
        isFull == (i = NumLines(c, set))
        \* install into the first invalid line
        c1 == IF isFull THEN c
              ELSE updateLastUsed(
                     [c EXCEPT ![set][i] =
                        [@ EXCEPT !.valid = 1, !.tag = tag, !.dirty = 0]],
                     set, i)
        \* evict the line with the largest lastUsed
        evicted == findLeastRecentlyUsed(c1, set)
        wasDirty == isFull /\ c1[set][evicted].dirty # 0
        c2 == IF isFull
              THEN updateLastUsed(
                     [c1 EXCEPT ![set][evicted] =
                        [@ EXCEPT !.valid = 1, !.tag = tag,
                                  !.dirty = IF @ # 0 THEN 0 ELSE @]],
                     set, evicted)
              ELSE c1
        st2 == IF wasDirty
               THEN [st EXCEPT !.dirty_evictions = @ + bs,
                               !.dirty_bytes = @ - bs]
               ELSE st
        index == IF isFull THEN evicted ELSE i
    IN  IF operation = "S"
        THEN [cache |-> [c2 EXCEPT ![set][index].dirty = 1],
              stats |-> [st2 EXCEPT !.dirty_bytes = @ + bs],
              ret |-> isFull, index |-> index]
        ELSE [cache |-> c2, stats |-> st2, ret |-> isFull, index |-> index]

\* Variant: the else of the miss branch is lost, so hits is incremented on a
\* miss as well.
updateData_NoElse(c, st, set, tag, operation, bs) ==
    LET m == isMiss(c, st, set, tag, operation, bs) IN
    IF m.ret
    THEN LET u == updateCache(m.cache, [m.stats EXCEPT !.misses = @ + 1],
                              set, tag, operation, bs) IN
         [cache |-> u.cache,
          stats |-> [(IF u.ret THEN [u.stats EXCEPT !.evictions = @ + 1]
                      ELSE u.stats) EXCEPT !.hits = @ + 1],
          miss |-> TRUE, evict |-> u.ret, index |-> u.index]
    ELSE [cache |-> m.cache, stats |-> [m.stats EXCEPT !.hits = @ + 1],
          miss |-> FALSE, evict |-> FALSE,
          index |-> hitScan(c, set, tag, 0)]

\* Variant: misses is incremented only when updateCache reports no eviction.
updateData_MissOrEvict(c, st, set, tag, operation, bs) ==
    LET m == isMiss(c, st, set, tag, operation, bs) IN
    IF m.ret
    THEN LET u == updateCache(m.cache, m.stats, set, tag, operation, bs) IN
         [cache |-> u.cache,
          stats |-> IF u.ret THEN [u.stats EXCEPT !.evictions = @ + 1]
                    ELSE [u.stats EXCEPT !.misses = @ + 1],
          miss |-> TRUE, evict |-> u.ret, index |-> u.index]
    ELSE [cache |-> m.cache, stats |-> [m.stats EXCEPT !.hits = @ + 1],
          miss |-> FALSE, evict |-> FALSE,
          index |-> hitScan(c, set, tag, 0)]

\* updateData after the two shifts: set and tag are the decoded values.
updateData(c, st, set, tag, operation, bs) ==
    LET m == isMiss(c, st, set, tag, operation, bs) IN
    IF m.ret
    THEN LET u == updateCache(m.cache, [m.stats EXCEPT !.misses = @ + 1],
                              set, tag, operation, bs) IN
         [cache |-> u.cache,
          stats |-> IF u.ret THEN [u.stats EXCEPT !.evictions = @ + 1]
                    ELSE u.stats,
          miss |-> TRUE, evict |-> u.ret, index |-> u.index]
    ELSE [cache |-> m.cache, stats |-> [m.stats EXCEPT !.hits = @ + 1],
          miss |-> FALSE, evict |-> FALSE,
          index |-> hitScan(c, set, tag, 0)]

\* The decoding at the head of updateData.
\* long set = addr >> b & ((1 << s) - 1): on two's complement the mask is the
\* remainder modulo 2^s.
SetOutcomes(addr) == {x % (2 ^ s) : x \in ShrOutcomes(addr, b)}
\* long tag = addr >> (s + b)
TagOutcomes(addr) == ShrOutcomes(addr, s + b)

\* Variant: a modify record is processed as an access.
isAccess_Modify(operation) ==
    operation = "L" \/ operation = "S" \/ operation = "M"

\* main: if (operation == 'L' | operation == 'S')
isAccess(operation) == operation = "L" \/ operation = "S"

\* ---- reference LRU model --------------------------------------------------

\* The resident tag of a set whose most recent access is the oldest.
RefOldest(r, set) ==
    CHOOSE t \in DOMAIN r[set] :
        \A u \in DOMAIN r[set] : r[set][t].pos <= r[set][u].pos

\* Number of accesses the reference model has seen to a set.
RefCount(r, set) ==
    IF DOMAIN r[set] = {} THEN 0
    ELSE LET t == CHOOSE t \in DOMAIN r[set] :
                    \A u \in DOMAIN r[set] : r[set][u].nth <= r[set][t].nth
         IN  r[set][t].nth

\* One access of the reference model at trace position pos.
RefAccess(r, set, tag, pos) ==
    LET res == DOMAIN r[set]
        now == [pos |-> pos, nth |-> RefCount(r, set) + 1]
        hit == tag \in res
        full == Cardinality(res) = E
        victim == IF ~hit /\ full THEN RefOldest(r, set) ELSE tag
        keep == IF ~hit /\ full THEN res \ {victim} ELSE res
    IN  [ref |-> [r EXCEPT ![set] =
                    [t \in keep \cup {tag} |-> IF t = tag THEN now ELSE r[set][t]]],
         miss |-> ~hit, evict |-> ~hit /\ full, victim |-> victim]

\* Number of valid lines of a set.
NumValid(c, set) == Cardinality({i \in DOMAIN c[set] : c[set][i].valid = 1})

\* ---- the program ----------------------------------------------------------

noRecord == [op |-> "none", addr |-> 0, set |-> 0, tag |-> 0, bs |-> 0,
             miss |-> FALSE, evict |-> FALSE, index |-> 0,
             nValid |-> 0, oldTag |-> 0, oldDirty |-> 0,
             refMiss |-> FALSE, refEvict |-> FALSE, refVictim |-> 0]

\* State after parseArgument and init for the geometry (ns, nE, nb).
Start(ns, nE, nb) ==
    /\ s = ns /\ E = nE /\ b = nb
    /\ cache = init(ns, nE)
    /\ stats = initStats
    /\ nRec = 0 /\ nLS = 0
    /\ last = noRecord
    /\ ref = [i \in 0..(2 ^ ns - 1) |-> [t \in {} |-> 0]]
    /\ pc = "loop" /\ traceFile = "open"
    /\ run2 = [cache |-> init(ns, nE + 1), stats |-> initStats, miss |-> FALSE]

Init == \E ns \in 0..MaxS, nE \in 1..MaxE, nb \in 0..MaxB : Start(ns, nE, nb)

\* One iteration of the loop of main: a record (operation, addr) is read and,
\* when it is a load or a store, handed to updateData.
ReadStep(operation, addr) ==
    /\ pc = "loop" /\ traceFile = "open"
    /\ UNCHANGED <<pc, traceFile>>
    /\ nRec' = nRec + 1
    /\ nLS' = IF operation \in {"L", "S"} THEN nLS + 1 ELSE nLS
    /\ UNCHANGED <<s, E, b>>
    /\ IF isAccess(operation)
       THEN \E set \in SetOutcomes(addr), tag \in TagOutcomes(addr),
               bs \in PowCast(b) :
              LET r == updateData(cache, stats, set, tag, operation, bs)
                  q == RefAccess(ref, set, tag, nRec + 1)
              IN  /\ cache' = r.cache
                  /\ stats' = r.stats
                  /\ ref' = q.ref
                  /\ last' = [op |-> operation, addr |-> addr, set |-> set,
                              tag |-> tag, bs |-> bs,
                              miss |-> r.miss, evict |-> r.evict,
                              index |-> r.index,
                              nValid |-> NumValid(cache, set),
                              oldTag |-> cache[set][r.index].tag,
                              oldDirty |-> cache[set][r.index].dirty,
                              refMiss |-> q.miss, refEvict |-> q.evict,
                              refVictim |-> q.victim]
       ELSE /\ UNCHANGED <<cache, stats, ref>>
            /\ last' = [noRecord EXCEPT !.op = operation]

ReadRecord(operation, addr) ==
    /\ nRec < MaxTrace
    /\ ReadStep(operation, addr)
    /\ UNCHANGED run2

Next == \E operation \in Ops, addr \in AddrSet : ReadRecord(operation, addr)

Spec == Init /\ [][Next]_vars

\* A run with s + b equal to the full address width.  The only such geometry
\* whose block size and set count stay representable is s = 0, b = 64.
InitFull == \E nE \in 1..MaxE : Start(0, nE, AddrWidth)

SpecFull == InitFull /\ [][Next]_vars

\* findLeastRecentlyUsed applied to an arbitrary assignment of lastUsed values
\* to the lines of one full set.
InitFind ==
    /\ s = 0 /\ b = 0
    /\ E \in 1..(MaxE + 1)
    /\ cache \in [{0} -> [0..(E - 1) ->
                   [valid : {1}, tag : {0}, dirty : {0}, lastUsed : 0..MaxAge]]]
    /\ stats = initStats
    /\ nRec = 0 /\ nLS = 0
    /\ last = noRecord
    /\ ref = [i \in {0} |-> [t \in {} |-> 0]]
    /\ pc = "loop" /\ traceFile = "open"
    /\ run2 = [cache |-> init(0, E + 1), stats |-> initStats, miss |-> FALSE]

FindVictim ==
    /\ last.op = "none"
    /\ last' = [noRecord EXCEPT !.op = "find",
                                !.index = findLeastRecentlyUsed(cache, 0)]
    /\ UNCHANGED <<s, E, b, cache, stats, nRec, nLS, ref, pc, traceFile, run2>>

NextFind == FindVictim

SpecFind == InitFind /\ [][NextFind]_vars

\* The scenario s = 0, E = 1, b = 4: one set, one line, 16-byte blocks.  The
\* addresses are those of AddrSet and their multiples by the block size, so
\* that some pairs share a block and others do not.
InitScen == Start(0, 1, 4)

ScenAddrSet == AddrSet \cup {16 * a : a \in AddrSet}

NextScen ==
    \E operation \in Ops, addr \in ScenAddrSet : ReadRecord(operation, addr)

SpecScen == InitScen /\ [][NextScen]_vars

\* ---- two runs on the same trace ---------------------------------------------

\* Records read when two runs are compared: one more than MaxTrace, so that
\* the run with E + 1 lines can evict as well.
InclTrace == MaxTrace + 1

\* The record is given to the run with E lines (ReadStep) and to a second run
\* of the program with the same s and b and E + 1 lines per set.
ReadBoth(operation, addr) ==
    /\ nRec < InclTrace
    /\ ReadStep(operation, addr)
    /\ IF isAccess(operation)
       THEN \E set \in SetOutcomes(addr), tag \in TagOutcomes(addr),
               bs \in PowCast(b) :
              LET r == updateData(run2.cache, run2.stats, set, tag,
                                  operation, bs)
              IN  run2' = [cache |-> r.cache, stats |-> r.stats,
                           miss |-> r.miss]
       ELSE run2' = [run2 EXCEPT !.miss = FALSE]

NextIncl == \E operation \in Ops, addr \in AddrSet : ReadBoth(operation, addr)

\* Inclusion is a property of each set on its own: the runs compared have
\* one set of one-byte blocks, with MaxE and MaxE + 1 lines.
InitIncl == Start(0, MaxE, 0)

SpecIncl == InitIncl /\ [][NextIncl]_vars

\* ---- start-up -------------------------------------------------------------

\* The process before main runs: s, E, b are -1, traceFile and cache are NULL
\* (an empty cache stands for the NULL pointer), stats is zeroed.
InitStartup ==
    /\ s = 0 - 1 /\ E = 0 - 1 /\ b = 0 - 1
    /\ traceFile = "NULL"
    /\ cache = << >>
    /\ stats = initStats
    /\ nRec = 0 /\ nLS = 0
    /\ last = noRecord
    /\ ref = << >>
    /\ pc = "parse"
    /\ run2 = [cache |-> << >>, stats |-> initStats, miss |-> FALSE]

\* The values atoi can deliver for -s, -E, -b; an option that is absent
\* leaves the global at -1, as the value -1 does.
ArgS == (0 - 1)..MaxS
ArgE == (0 - 1)..MaxE
ArgB == ((0 - 1)..MaxB) \cup {AddrWidth + 1}
\* -t: not given, given without a value, naming a file fopen cannot open,
\* or naming a readable file.
ArgT == {"absent", "novalue", "unopenable", "ok"}

\* parseArgument.  -h, an option without its value (getopt returns '?') and a
\* failed fopen leave the getopt loop through exit; otherwise the globals are
\* set and the geometry is validated.  traceFile is not part of the validation.
parseArgument(ns, nE, nb, t, h) ==
    /\ pc = "parse"
    /\ IF h \/ t \in {"novalue", "unopenable"}
       THEN /\ pc' = "exit"
            /\ UNCHANGED <<s, E, b, traceFile>>
       ELSE /\ s' = ns /\ E' = nE /\ b' = nb
            /\ traceFile' = IF t = "ok" THEN "open" ELSE "NULL"
            /\ pc' = IF ns < 0 \/ nE <= 0 \/ nb < 0 \/ ns + nb > AddrWidth
                     THEN "exit" ELSE "init"
    /\ UNCHANGED <<cache, stats, nRec, nLS, last, ref, run2>>

\* main: init().
InitCache ==
    /\ pc = "init"
    /\ cache' = init(s, E)
    /\ ref' = [i \in 0..(2 ^ s - 1) |-> [t \in {} |-> 0]]
    /\ run2' = [cache |-> init(s, E + 1), stats |-> initStats, miss |-> FALSE]
    /\ pc' = "loop"
    /\ UNCHANGED <<s, E, b, traceFile, stats, nRec, nLS, last>>

\* main: fgets(buf, sizeof(buf), traceFile) with traceFile == NULL is
\* undefined: the process crashes, or fgets fails and the loop ends.
ReadNull ==
    /\ pc = "loop" /\ traceFile = "NULL"
    /\ pc' \in {"crash", "exit"}
    /\ UNCHANGED <<s, E, b, traceFile, cache, stats, nRec, nLS, last, ref, run2>>

\* main: fgets returns NULL at the end of the trace; printSummary, return.
EndOfTrace ==
    /\ pc = "loop" /\ traceFile = "open"
    /\ pc' = "exit"
    /\ UNCHANGED <<s, E, b, traceFile, cache, stats, nRec, nLS, last, ref, run2>>

NextStartup ==
    \/ \E ns \in ArgS, nE \in ArgE, nb \in ArgB, t \in ArgT, h \in BOOLEAN :
          parseArgument(ns, nE, nb, t, h)
    \/ InitCache
    \/ \E operation \in Ops, addr \in AddrSet : ReadRecord(operation, addr)
    \/ ReadNull
    \/ EndOfTrace

SpecStartup == InitStartup /\ [][NextStartup]_vars

\* ---- properties -----------------------------------------------------------

Sets == 0..(2 ^ s - 1)
Lines == 0..(E - 1)
BlockSize == 2 ^ b
LastWasAccess == last.op \in {"L", "S"}

\* The lines that are valid and dirty.
DirtyLines == {p \in Sets \X Lines :
                 cache[p[1]][p[2]].valid = 1 /\ cache[p[1]][p[2]].dirty = 1}

\* A valid line of set holds tag.
Resident(c, set, tag) ==
    \E i \in Lines : c[set][i].valid = 1 /\ c[set][i].tag = tag

\* C1: between two records, dirty_bytes is 2^b times the number of lines that
\* are valid and dirty.
C1_DirtyBytesSum == stats.dirty_bytes = BlockSize * Cardinality(DirtyLines)

C1_Witness ==
    /\ stats.dirty_evictions > 0
    /\ Cardinality(DirtyLines) = 2
    /\ b = 1
    /\ stats.hits > 0

\* C2: the counter-based replacement agrees with the reference LRU model: on
\* every record both report the same hit/miss/eviction, on a miss to a full set
\* the overwritten line held the block whose most recent access is the oldest,
\* and both hold the same blocks afterwards.
C2_TrueLRU ==
    /\ LastWasAccess =>
        /\ last.miss = last.refMiss
        /\ last.evict = last.refEvict
        /\ (last.miss /\ last.nValid = E) =>
              /\ last.refEvict
              /\ last.oldTag = last.refVictim
    /\ \A set \in Sets :
         {cache[set][i].tag : i \in {j \in Lines : cache[set][j].valid = 1}}
            = DOMAIN ref[set]

\* An eviction that first-in-first-out would have decided differently: the
\* victim is not the line installed first.
C2_Witness ==
    /\ LastWasAccess /\ last.evict
    /\ E = 2 /\ last.index = 1
    /\ stats.evictions = 1

\* C3: a Load/Store record increments exactly one of hits and misses by one,
\* any other record increments neither, and hits + misses counts the
\* Load/Store records read.
C3_HitsPlusMisses ==
    /\ [](stats.hits + stats.misses = nLS)
    /\ [][nRec' = nRec + 1 =>
            IF last'.op \in {"L", "S"}
            THEN \/ stats'.hits = stats.hits + 1 /\ stats'.misses = stats.misses
                 \/ stats'.hits = stats.hits /\ stats'.misses = stats.misses + 1
            ELSE stats'.hits = stats.hits /\ stats'.misses = stats.misses]_vars

C3_Witness ==
    /\ nRec = 4 /\ nLS = 3
    /\ stats.hits = 1 /\ stats.misses = 2

\* C4: no two distinct valid lines of a set hold the same tag.
C4_UniqueTags ==
    \A set \in Sets : \A i, j \in Lines :
        (i # j /\ cache[set][i].valid = 1 /\ cache[set][j].valid = 1)
            => cache[set][i].tag # cache[set][j].tag

C4_Witness ==
    /\ E = 2
    /\ \E set \in Sets : cache[set][0].valid = 1 /\ cache[set][1].valid = 1
    /\ stats.evictions > 0 /\ stats.hits > 0

\* C5: evictions grows by one exactly on a Load/Store record that misses while
\* all E lines of its set are valid; a miss to a set with an invalid line
\* installs into an invalid line; nothing else changes evictions.
C5_EvictionIff ==
    [][nRec' = nRec + 1 =>
        LET acc == last'.op \in {"L", "S"}
            miss == acc /\ ~Resident(cache, last'.set, last'.tag)
            full == \A i \in Lines : cache[last'.set][i].valid = 1
        IN  /\ stats'.evictions = stats.evictions
                                    + (IF miss /\ full THEN 1 ELSE 0)
            /\ (miss /\ ~full) =>
                  \E i \in Lines : /\ cache[last'.set][i].valid = 0
                                   /\ cache'[last'.set][i].valid = 1
                                   /\ cache'[last'.set][i].tag = last'.tag
            /\ (miss /\ E = 1 /\ cache[last'.set][0].valid = 1) =>
                  stats'.evictions = stats.evictions + 1]_vars

C5_Witness ==
    /\ LastWasAccess /\ last.miss /\ last.nValid = E
    /\ E = 1 /\ stats.evictions = 2

\* C6: findLeastRecentlyUsed returns the smallest index whose lastUsed is the
\* maximum over the set.
MaxLastUsed(set) ==
    CHOOSE m \in {cache[set][i].lastUsed : i \in Lines} :
        \A i \in Lines : cache[set][i].lastUsed <= m

C6_LowestIndexOfMax ==
    last.op = "find" =>
        /\ last.index \in Lines
        /\ cache[0][last.index].lastUsed = MaxLastUsed(0)
        /\ \A i \in Lines :
              cache[0][i].lastUsed = MaxLastUsed(0) => last.index <= i

\* The maximum is shared by the lines at index 1 and 2, not by line 0.
C6_Witness ==
    /\ last.op = "find" /\ E = 3
    /\ cache[0][1].lastUsed = cache[0][2].lastUsed
    /\ cache[0][0].lastUsed < cache[0][1].lastUsed
    /\ last.index = 1

\* C7: with s + b = 64 every address decodes to tag 0, so an access to a set
\* that already holds a block is a hit.
C7_FullWidthTagZero ==
    (LastWasAccess /\ s + b = AddrWidth) =>
        /\ last.tag = 0
        /\ last.nValid > 0 => ~last.miss

\* C8: set index and tag are those of the unsigned address: the set index is
\* in 0..2^s-1, the tag is not negative and tag * 2^s + set = address >> b.
\* (The unsigned value of a negative addr is addr + 2^64; its quotient is
\* compared only for addr >= 0, where both readings coincide.)
C8_UnsignedDecode ==
    (LastWasAccess /\ s + b < AddrWidth) =>
        /\ last.set \in Sets
        /\ last.tag >= 0
        /\ last.addr >= 0 => last.tag * (2 ^ s) + last.set = last.addr \div (2 ^ b)

\* C9: a record that is neither a Load nor a Store changes no line and no
\* counter.
C9_OtherRecordsFrame ==
    [][(nRec' = nRec + 1 /\ last'.op \notin {"L", "S"})
          => (cache' = cache /\ stats' = stats)]_vars

C9_Witness ==
    /\ last.op = "M"
    /\ stats.misses > 0 /\ stats.dirty_bytes > 0

\* C10: dirty_bytes stays within 0 .. E * 2^s * 2^b; the unsigned counter
\* never wraps below zero.
C10_DirtyBytesRange ==
    /\ 0 <= stats.dirty_bytes
    /\ stats.dirty_bytes <= E * (2 ^ s) * (2 ^ b)

\* Every line is dirty right after a dirty line was evicted.
C10_Witness ==
    /\ LastWasAccess /\ last.evict /\ last.oldDirty = 1
    /\ stats.dirty_bytes = E * (2 ^ s) * (2 ^ b)

\* The line findLeastRecentlyUsed is specified to select: the lowest index
\* among the lines of the set with the largest lastUsed.
VictimLine(set) ==
    CHOOSE i \in Lines :
        \A j \in Lines :
            \/ cache[set][j].lastUsed < cache[set][i].lastUsed
            \/ cache[set][j].lastUsed = cache[set][i].lastUsed /\ i <= j

\* C11: in every step dirty_evictions stays the same or grows by exactly 2^b,
\* and it grows only on a Load/Store miss to a full set whose victim is dirty.
C11_DirtyEvictionsMonotone ==
    [][\/ stats'.dirty_evictions = stats.dirty_evictions
       \/ /\ stats'.dirty_evictions = stats.dirty_evictions + BlockSize
          /\ nRec' = nRec + 1
          /\ last'.op \in {"L", "S"}
          /\ ~Resident(cache, last'.set, last'.tag)
          /\ \A i \in Lines : cache[last'.set][i].valid = 1
          /\ cache[last'.set][VictimLine(last'.set)].dirty = 1]_vars

\* Two dirty evictions of 2-byte blocks.
C11_Witness ==
    /\ LastWasAccess /\ last.evict /\ last.oldDirty = 1
    /\ b = 1
    /\ stats.dirty_evictions = 2 * BlockSize

\* C12: evictions never exceeds misses.
C12_EvictionsLeMisses == stats.evictions <= stats.misses

C12_Witness ==
    /\ stats.evictions = 3
    /\ stats.misses = 4

\* The trace so far is Store A, and the step reads Store B.
StoreThenStore ==
    /\ s = 0 /\ E = 1 /\ b = 4
    /\ nRec = 1 /\ last.op = "S"
    /\ nRec' = 2 /\ last'.op = "S"

ScenarioResult(st) ==
    st.evictions = 1 /\ st.dirty_evictions = 16 /\ st.dirty_bytes = 16

\* C13 as stated: for any two addresses A # B, Store A then Store B ends with
\* evictions = 1, dirty_evictions = 16, dirty_bytes = 16.
C13_AnyTwoAddresses ==
    [][(StoreThenStore /\ last'.addr # last.addr) => ScenarioResult(stats')]_vars

\* C13 amended: the same for any two addresses A and B in different 16-byte
\* blocks.
C13_DifferentBlocks ==
    [][(StoreThenStore /\ (last'.addr \div 16) # (last.addr \div 16))
          => ScenarioResult(stats')]_vars

C13_Witness ==
    /\ s = 0 /\ E = 1 /\ b = 4
    /\ nRec = 2 /\ nLS = 2 /\ last.op = "S" /\ last.evict /\ last.oldDirty = 1
    /\ ScenarioResult(stats)

\* C14: when the trace file is not supplied or cannot be opened the program
\* exits before init() and before the read loop: neither is reached with
\* traceFile == NULL.
C14_NoNullTraceFile == pc \in {"init", "loop"} => traceFile = "open"

\* C15: after a Load/Store access exactly one line of the touched set has
\* lastUsed = 0, it is valid and holds the tag just accessed, and every other
\* valid line of the set has lastUsed equal to the number of accesses to the
\* set since that line was last hit or installed.
C15_RecencyCounters ==
    LastWasAccess =>
        LET set == last.set
            zero == {i \in Lines : cache[set][i].lastUsed = 0}
        IN  /\ Cardinality(zero) = 1
            /\ \A i \in zero :
                  cache[set][i].valid = 1 /\ cache[set][i].tag = last.tag
            /\ \A i \in Lines \ zero :
                  cache[set][i].valid = 1 =>
                     cache[set][i].lastUsed =
                        RefCount(ref, set) - ref[set][cache[set][i].tag].nth

\* A hit on the older of two resident blocks, after a third access to the set.
C15_Witness ==
    /\ LastWasAccess /\ ~last.miss
    /\ E = 2 /\ last.index = 0
    /\ cache[last.set][1].valid = 1 /\ cache[last.set][1].lastUsed = 2

\* C16: the lastUsed values of the valid lines of a set are pairwise distinct,
\* so in a full set exactly one line holds the maximum.
C16_DistinctRecency ==
    \A set \in Sets :
        /\ \A i, j \in Lines :
              (i # j /\ cache[set][i].valid = 1 /\ cache[set][j].valid = 1)
                 => cache[set][i].lastUsed # cache[set][j].lastUsed
        /\ (\A i \in Lines : cache[set][i].valid = 1) =>
              Cardinality({i \in Lines :
                 cache[set][i].lastUsed = MaxLastUsed(set)}) = 1

\* A full two-line set after its second eviction.
C16_Witness ==
    /\ LastWasAccess /\ last.evict
    /\ E = 2 /\ stats.evictions = 2
    /\ cache[last.set][1 - last.index].lastUsed = 1

\* The state of a line in the per-line state machine.
LineState(c, set, i) ==
    IF c[set][i].valid = 0 THEN "Invalid"
    ELSE IF c[set][i].dirty = 1 THEN "Dirty" ELSE "Clean"

\* The step from the current to the next state is one the per-line state
\* machine allows for line i of set.
LineStep(set, i) ==
    LET from == LineState(cache, set, i)
        to == LineState(cache', set, i)
        acc == nRec' = nRec + 1 /\ last'.op \in {"L", "S"} /\ last'.set = set
        miss == acc /\ ~Resident(cache, set, last'.tag)
        full == \A j \in Lines : cache[set][j].valid = 1
        hitHere == acc /\ cache[set][i].valid = 1
                       /\ cache[set][i].tag = last'.tag
        installHere == miss /\ ~full /\ cache'[set][i].tag = last'.tag
        victimHere == miss /\ full /\ i = VictimLine(set)
    IN  \/ from = to
        \/ from = "Invalid" /\ to = "Clean" /\ installHere /\ last'.op = "L"
        \/ from = "Invalid" /\ to = "Dirty" /\ installHere /\ last'.op = "S"
        \/ from = "Clean" /\ to = "Dirty" /\ last'.op = "S"
              /\ (hitHere \/ victimHere)
        \/ from = "Dirty" /\ to = "Clean" /\ victimHere /\ last'.op = "L"

\* C17: every line follows the per-line state machine: Invalid -> Clean on an
\* install by a Load, Invalid -> Dirty on an install by a Store, Clean -> Dirty
\* on a Store hit or an eviction-and-reinstall by a Store, Dirty -> Clean only
\* as the victim of a full-set miss by a Load; a valid line stays valid and an
\* invalid line is never dirty.
C17_LineStateMachine ==
    /\ [](\A set \in Sets : \A i \in Lines :
            cache[set][i].valid = 0 => cache[set][i].dirty = 0)
    /\ [][\A set \in Sets : \A i \in Lines : LineStep(set, i)]_vars

\* A dirty line has just been evicted by a Load and is clean.
C17_Witness ==
    /\ last.op = "L" /\ last.evict /\ last.oldDirty = 1
    /\ LineState(cache, last.set, last.index) = "Clean"
    /\ E = 2

\* C18: the valid lines of a set are a prefix of its storage order, and a miss
\* to a set that is not full installs the block at the index equal to the
\* number of lines that were valid.
C18_ValidPrefix ==
    /\ \A set \in Sets : \A i, j \in Lines :
          (i < j /\ cache[set][j].valid = 1) => cache[set][i].valid = 1
    /\ (LastWasAccess /\ last.miss /\ last.nValid < E) =>
          /\ cache[last.set][last.nValid].valid = 1
          /\ cache[last.set][last.nValid].tag = last.tag
          /\ cache[last.set][last.nValid].lastUsed = 0

C18_Witness ==
    /\ LastWasAccess /\ last.miss /\ last.nValid = 1
    /\ E = 2 /\ s = 1
    /\ cache[1 - last.set][0].valid = 1 /\ cache[1 - last.set][1].valid = 0

\* The lines that are valid.
ValidLines == {p \in Sets \X Lines : cache[p[1]][p[2]].valid = 1}

\* C19: misses = evictions + the number of valid lines.
C19_MissesFillOrEvict ==
    stats.misses = stats.evictions + Cardinality(ValidLines)

C19_Witness ==
    /\ stats.misses = 4 /\ stats.evictions = 2
    /\ Cardinality(ValidLines) = 2

\* The tags of the valid lines of a set of cache c.
ResidentTags(c, set) ==
    {c[set][i].tag : i \in {j \in DOMAIN c[set] : c[set][j].valid = 1}}

\* C20: after every prefix of the trace each block resident in a set of the
\* E-way cache is resident in the same set of the (E+1)-way cache; a record
\* that hits in the E-way cache hits in the (E+1)-way cache; and the
\* (E+1)-way run has no more misses.
C20_LRUInclusion ==
    /\ \A set \in Sets :
          ResidentTags(cache, set) \subseteq ResidentTags(run2.cache, set)
    /\ (LastWasAccess /\ ~last.miss) => ~run2.miss
    /\ run2.stats.misses <= stats.misses

\* The larger cache has evicted a block, and the last record hit in it while
\* it missed in the smaller one.
C20_Witness ==
    /\ LastWasAccess /\ last.miss /\ ~run2.miss
    /\ E = 2
    /\ run2.stats.evictions > 0
    /\ run2.stats.misses < stats.misses

====
